---- MODULE Spec2Model ----
(***************************************************************************)
(* Model of utils/gltf-material-modifier.py: the quaternion product        *)
(* multiply_quaternions, the scene reorientation reorient_scene and the    *)
(* material stage of modify_gltf, over glTF documents held as nested       *)
(* dictionaries (functions on key strings) and lists (sequences).          *)
(***************************************************************************)
EXTENDS Integers, Sequences, FiniteSets, TLC

VARIABLES
    q1, q2, q3, pc,     \* inputs, result and position of a multiply_quaternions call
    gltf_data,          \* the document the tool works on
    pre,                \* the document as it was when the last call started
    last,               \* the last call: function name and arguments
    log,                \* the log records the last call emitted, in order
    raised,             \* the exception the last call ended with, or "none"
    doc0,               \* the document as first loaded
    calls               \* number of calls made on the document so far

vars == <<q1, q2, q3, pc, gltf_data, pre, last, log, raised, doc0, calls>>
quatVars == <<q1, q2, q3, pc>>
docVars == <<gltf_data, pre, last, log, raised, doc0, calls>>

(***************************************************************************)
(* Bounds of the model.                                                    *)
(***************************************************************************)
MaxComponent == 1       \* quaternion inputs have components in -MaxComponent..MaxComponent
MaxNodes == 3           \* length of the global node sequence of an input document
MaxMaterials == 2       \* length of the material list of an input document
MaxCalls == 2           \* calls made on one document

(***************************************************************************)
(* Numbers.  The rotation components the program computes are sums of      *)
(* products of integers and sqrt(0.5); they are kept exactly as            *)
(* (a + b*sqrt(0.5)) / 2^e in lowest terms, so sqrt(0.5)*sqrt(0.5) is 1/2. *)
(***************************************************************************)
RECURSIVE Pow2(_)
Pow2(n) == IF n = 0 THEN 1 ELSE 2 * Pow2(n - 1)

RECURSIVE Norm(_)
Norm(x) ==
    IF x.e > 0 /\ x.a % 2 = 0 /\ x.b % 2 = 0
    THEN Norm([a |-> x.a \div 2, b |-> x.b \div 2, e |-> x.e - 1])
    ELSE x

Num(i) == [a |-> i, b |-> 0, e |-> 0]

Sqrt05 == [a |-> 0, b |-> 1, e |-> 0]

NumAdd(x, y) ==
    LET e == IF x.e > y.e THEN x.e ELSE y.e
        sx == Pow2(e - x.e)
        sy == Pow2(e - y.e)
    IN  Norm([a |-> x.a * sx + y.a * sy, b |-> x.b * sx + y.b * sy, e |-> e])

NumNeg(x) == [a |-> 0 - x.a, b |-> 0 - x.b, e |-> x.e]

NumSub(x, y) == NumAdd(x, NumNeg(y))

\* (a + b s)(c + d s) = ac + bd/2 + (ad + bc) s   with s*s = 1/2
NumMul(x, y) ==
    Norm([a |-> 2 * x.a * y.a + x.b * y.b,
          b |-> 2 * (x.a * y.b + x.b * y.a),
          e |-> x.e + y.e + 1])

(***************************************************************************)
(* Lists are 0-indexed in the program: At(l, i) is l[i].                   *)
(***************************************************************************)
At(l, i) == l[i + 1]

NINETY_DEG_X_ROTATION == <<Sqrt05, Num(0), Num(0), Sqrt05>>

multiply_quaternions(a, b) ==
    <<NumSub(NumSub(NumSub(NumMul(At(a, 0), At(b, 0)), NumMul(At(a, 1), At(b, 1))),
                    NumMul(At(a, 2), At(b, 2))), NumMul(At(a, 3), At(b, 3))),
      NumSub(NumAdd(NumAdd(NumMul(At(a, 0), At(b, 1)), NumMul(At(a, 1), At(b, 0))),
                    NumMul(At(a, 2), At(b, 3))), NumMul(At(a, 3), At(b, 2))),
      NumAdd(NumAdd(NumSub(NumMul(At(a, 0), At(b, 2)), NumMul(At(a, 1), At(b, 3))),
                    NumMul(At(a, 2), At(b, 0))), NumMul(At(a, 3), At(b, 1))),
      NumAdd(NumSub(NumAdd(NumMul(At(a, 0), At(b, 3)), NumMul(At(a, 1), At(b, 2))),
                    NumMul(At(a, 2), At(b, 1))), NumMul(At(a, 3), At(b, 0)))>>

Identity == <<Num(0), Num(0), Num(0), Num(1)>>

Components == (0 - MaxComponent)..MaxComponent

Quaternions ==
    {<<Num(x), Num(y), Num(z), Num(w)>> : x \in Components, y \in Components,
                                          z \in Components, w \in Components}

(***************************************************************************)
(* Dictionaries are functions on their keys.                               *)
(***************************************************************************)
EmptyDict == [k \in {} |-> 0]

HasKey(d, k) == k \in DOMAIN d

\* d[k] = v
Put(d, k, v) == [x \in (DOMAIN d) \cup {k} |-> IF x = k THEN v ELSE d[x]]

\* not d.get(k), for a key that holds a list when present
Falsy(d, k) == ~HasKey(d, k) \/ Len(d[k]) = 0

\* l[i] = v on a list
ListPut(l, i, v) == [j \in 1..Len(l) |-> IF j = i + 1 THEN v ELSE l[j]]

Record(level, msg) == <<level, msg>>

Outcome(d, lg, exc) == [doc |-> d, log |-> lg, raised |-> exc]

(***************************************************************************)
(* reorient_scene(gltf_data): the document it leaves, the records it logs  *)
(* and the exception it ends with, if any.                                 *)
(***************************************************************************)
\* slip: the node list tested for presence, not for emptiness
NoSceneGuardKeyOnly(d) ==
    Falsy(d, "scenes") \/ ~HasKey(At(d["scenes"], 0), "nodes")

NoSceneGuard(d) == Falsy(d, "scenes") \/ Falsy(At(d["scenes"], 0), "nodes")

\* slip: a missing rotation defaulted to the identity and composed like an
\* existing one
RotateRootComposed(root_node) ==
    Put(root_node, "rotation",
        multiply_quaternions(IF HasKey(root_node, "rotation")
                             THEN root_node["rotation"]
                             ELSE <<Num(0), Num(0), Num(0), Num(1)>>,
                             NINETY_DEG_X_ROTATION))

RotateRoot(root_node) ==
    IF HasKey(root_node, "rotation")
    THEN Put(root_node, "rotation",
             multiply_quaternions(root_node["rotation"], NINETY_DEG_X_ROTATION))
    ELSE Put(root_node, "rotation", NINETY_DEG_X_ROTATION)

NewRoot(scene) ==
    [name |-> "ReorientedRoot",
     rotation |-> NINETY_DEG_X_ROTATION,
     children |-> scene["nodes"]]

\* slip: the scene's node list left as it was
WrapRootsKeepScene(d) ==
    Put(d, "nodes", Append(d["nodes"], NewRoot(At(d["scenes"], 0))))

\* slip: the new root's index taken after the append
WrapRootsIndexAfterAppend(d) ==
    LET scene == At(d["scenes"], 0)
        appended == Append(d["nodes"], NewRoot(scene))
        scene2 == Put(scene, "nodes", <<Len(appended)>>)
        d2 == Put(d, "scenes", ListPut(d["scenes"], 0, scene2))
    IN  Put(d2, "nodes", appended)

WrapRoots(d) ==
    LET scene == At(d["scenes"], 0)
        new_root == NewRoot(scene)
        scene2 == Put(scene, "nodes", <<Len(d["nodes"])>>)
        d2 == Put(d, "scenes", ListPut(d["scenes"], 0, scene2))
    IN  Put(d2, "nodes", Append(d["nodes"], new_root))

reorient_scene(d) ==
    IF NoSceneGuard(d)
    THEN Outcome(d, <<Record("WARNING", "No valid scene or nodes found in the glTF file.")>>,
                 "none")
    ELSE IF ~HasKey(d, "scenes") THEN Outcome(d, <<>>, "KeyError")
    ELSE IF Len(d["scenes"]) = 0 THEN Outcome(d, <<>>, "IndexError")
    ELSE LET scene == At(d["scenes"], 0) IN
         IF ~HasKey(scene, "nodes") THEN Outcome(d, <<>>, "KeyError")
         ELSE IF Len(scene["nodes"]) = 1
         THEN IF ~HasKey(d, "nodes")
              THEN Outcome(d, <<>>, "KeyError")
              ELSE IF At(scene["nodes"], 0) >= Len(d["nodes"])
              THEN Outcome(d, <<>>, "IndexError")
              ELSE LET i == At(scene["nodes"], 0)
                       root_node == At(d["nodes"], i)
                       lg == IF HasKey(root_node, "rotation")
                             THEN <<Record("INFO", "Applying rotation to existing root node.")>>
                             ELSE <<>>
                   IN  Outcome(Put(d, "nodes", ListPut(d["nodes"], i, RotateRoot(root_node))),
                               lg, "none")
         ELSE LET lg == <<Record("INFO", "Creating new root node for reorientation.")>> IN
              IF ~HasKey(d, "nodes")
              THEN Outcome(d, lg, "KeyError")
              ELSE Outcome(WrapRoots(d), lg, "none")

(***************************************************************************)
(* The material stage of modify_gltf.  Factors are held in tenths, so the  *)
(* upper clamp limit 1 is One.                                             *)
(***************************************************************************)
One == 10

Min(a, b) == IF b < a THEN b ELSE a

Max(a, b) == IF b > a THEN b ELSE a

\* slip: the lower limit forgotten
ClampFactorUpperOnly(v) == Min(One, v)

\* max(0, min(1, v))
ClampFactor(v) == Max(0, Min(One, v))

\* slip: the roughness test looks for the metallic key
PatchMaterialSameKey(material, metallic_factor, roughness_factor, override) ==
    LET pbr0 == IF HasKey(material, "pbrMetallicRoughness")
                THEN material["pbrMetallicRoughness"]
                ELSE EmptyDict
        pbr1 == IF ~HasKey(pbr0, "metallicFactor") \/ override
                THEN Put(pbr0, "metallicFactor", ClampFactor(metallic_factor))
                ELSE pbr0
        pbr2 == IF ~HasKey(pbr0, "metallicFactor") \/ override
                THEN Put(pbr1, "roughnessFactor", ClampFactor(roughness_factor))
                ELSE pbr1
    IN  Put(material, "pbrMetallicRoughness", pbr2)

\* slip: get in place of setdefault, so a substructure made for a material
\* that had none is filled and then dropped
PatchMaterialGet(material, metallic_factor, roughness_factor, override) ==
    IF HasKey(material, "pbrMetallicRoughness")
    THEN LET pbr0 == material["pbrMetallicRoughness"]
             pbr1 == IF ~HasKey(pbr0, "metallicFactor") \/ override
                     THEN Put(pbr0, "metallicFactor", ClampFactor(metallic_factor))
                     ELSE pbr0
             pbr2 == IF ~HasKey(pbr1, "roughnessFactor") \/ override
                     THEN Put(pbr1, "roughnessFactor", ClampFactor(roughness_factor))
                     ELSE pbr1
         IN  Put(material, "pbrMetallicRoughness", pbr2)
    ELSE material

\* slip: the substructure rebuilt from the two factors, its other keys lost
PatchMaterialFreshPbr(material, metallic_factor, roughness_factor, override) ==
    LET pbr0 == IF HasKey(material, "pbrMetallicRoughness")
                THEN material["pbrMetallicRoughness"]
                ELSE EmptyDict
        m == IF ~HasKey(pbr0, "metallicFactor") \/ override
             THEN ClampFactor(metallic_factor)
             ELSE pbr0["metallicFactor"]
        r == IF ~HasKey(pbr0, "roughnessFactor") \/ override
             THEN ClampFactor(roughness_factor)
             ELSE pbr0["roughnessFactor"]
    IN  Put(material, "pbrMetallicRoughness", [metallicFactor |-> m, roughnessFactor |-> r])

PatchMaterial(material, metallic_factor, roughness_factor, override) ==
    LET pbr0 == IF HasKey(material, "pbrMetallicRoughness")
                THEN material["pbrMetallicRoughness"]
                ELSE EmptyDict
        pbr1 == IF ~HasKey(pbr0, "metallicFactor") \/ override
                THEN Put(pbr0, "metallicFactor", ClampFactor(metallic_factor))
                ELSE pbr0
        pbr2 == IF ~HasKey(pbr1, "roughnessFactor") \/ override
                THEN Put(pbr1, "roughnessFactor", ClampFactor(roughness_factor))
                ELSE pbr1
    IN  Put(material, "pbrMetallicRoughness", pbr2)

\* slip: the material list tested for truth, so an empty list counts as missing
ModifyMaterialsFalsy(d, metallic_factor, roughness_factor, override) ==
    IF ~Falsy(d, "materials")
    THEN Outcome(Put(d, "materials",
                     [i \in 1..Len(d["materials"]) |->
                         PatchMaterial(d["materials"][i], metallic_factor,
                                       roughness_factor, override)]),
                 <<Record("INFO", "Modifying materials...")>>, "none")
    ELSE Outcome(d, <<Record("WARNING", "No materials found in the glTF file.")>>, "none")

ModifyMaterials(d, metallic_factor, roughness_factor, override) ==
    IF HasKey(d, "materials")
    THEN Outcome(Put(d, "materials",
                     [i \in 1..Len(d["materials"]) |->
                         PatchMaterial(d["materials"][i], metallic_factor,
                                       roughness_factor, override)]),
                 <<Record("INFO", "Modifying materials...")>>, "none")
    ELSE Outcome(d, <<Record("WARNING", "No materials found in the glTF file.")>>, "none")

\* modify_gltf once the input file has been read into d
modify_gltf(d, metallic_factor, roughness_factor, override, reorient) ==
    LET reading == <<Record("INFO", "Reading input file")>>
        r1 == IF reorient
              THEN LET x == reorient_scene(d)
                   IN  Outcome(x.doc, <<Record("INFO", "Reorienting scene...")>> \o x.log,
                               x.raised)
              ELSE Outcome(d, <<>>, "none")
    IN  IF r1.raised # "none"
        THEN Outcome(r1.doc, reading \o r1.log, r1.raised)
        ELSE LET r2 == ModifyMaterials(r1.doc, metallic_factor, roughness_factor, override)
             IN  Outcome(r2.doc,
                         reading \o r1.log \o r2.log
                             \o <<Record("INFO", "Writing output file"),
                                  Record("INFO", "Modification complete.")>>,
                         "none")

(***************************************************************************)
(* Input documents.                                                        *)
(***************************************************************************)
NodeTemplates ==
    {[name |-> "a"],
     [name |-> "b", rotation |-> Identity, mesh |-> 0],
     [rotation |-> <<Num(0), Num(1), Num(0), Num(0)>>, children |-> <<>>]}

NodeLists == UNION {[1..n -> NodeTemplates] : n \in 0..MaxNodes}

\* the lists of distinct node indices below n, of length 1..n
IndexLists(n) ==
    {l \in UNION {[1..k -> 0..(n - 1)] : k \in 1..n} :
        \A i, j \in DOMAIN l : i # j => l[i] # l[j]}

\* the first scene of a document with n nodes
FirstScenes(n) ==
    {[name |-> "no nodes"], [nodes |-> <<>>], [nodes |-> <<n>>]}
        \cup {[name |-> "Scene", nodes |-> l] : l \in IndexLists(n)}

OtherScenes == {<<>>, <<[name |-> "second", nodes |-> <<0>>]>>}

Asset == [version |-> "2.0"]

SomeMaterials == <<[name |-> "m"]>>

SceneDocs ==
    {[asset |-> Asset, materials |-> SomeMaterials],
     [asset |-> Asset, scenes |-> <<>>, nodes |-> <<>>],
     [asset |-> Asset, scenes |-> <<[nodes |-> <<0>>]>>],
     [asset |-> Asset, scenes |-> <<[nodes |-> <<0, 1>>]>>]}
        \cup UNION {
               {[asset |-> Asset, materials |-> SomeMaterials, nodes |-> nl,
                 scenes |-> <<sc>> \o tl] : sc \in FirstScenes(Len(nl)), tl \in OtherScenes}
               : nl \in NodeLists}

MaterialTemplates ==
    {[name |-> "bare"],
     [pbrMetallicRoughness |-> EmptyDict],
     [pbrMetallicRoughness |-> [metallicFactor |-> 9]],
     [name |-> "full",
      pbrMetallicRoughness |-> [metallicFactor |-> 4, roughnessFactor |-> 6,
                                baseColorTexture |-> 0]]}

MaterialLists == UNION {[1..n -> MaterialTemplates] : n \in 0..MaxMaterials}

SceneBases ==
    {[asset |-> Asset],
     [asset |-> Asset, nodes |-> <<[name |-> "a"], [name |-> "b"]>>,
      scenes |-> <<[nodes |-> <<1, 0>>]>>]}

MaterialDocs ==
    SceneBases \cup {Put(b, "materials", ml) : b \in SceneBases, ml \in MaterialLists}

\* requested (metallic, roughness), in tenths: the defaults, two values
\* inside the range, the limits of the range, and values above and below it
FactorPairs == {<<1, 1>>, <<2, 3>>, <<0, One>>, <<50, 0 - 20>>, <<0 - 20, 50>>}

NoCall == [op |-> "none", metallic |-> 0, roughness |-> 0, override |-> FALSE,
           reorient |-> FALSE]

Call(op, m, r, o, re) ==
    [op |-> op, metallic |-> m, roughness |-> r, override |-> o, reorient |-> re]

(***************************************************************************)
(* Specification of the quaternion product on its own.                     *)
(***************************************************************************)
DocIdle ==
    /\ gltf_data = [asset |-> Asset]
    /\ pre = gltf_data
    /\ doc0 = gltf_data
    /\ last = NoCall
    /\ log = <<>>
    /\ raised = "none"
    /\ calls = 0

QuatIdle ==
    /\ q1 = Identity
    /\ q2 = Identity
    /\ q3 = Identity
    /\ pc = "idle"

InitQuat ==
    /\ q1 \in Quaternions
    /\ q2 \in Quaternions
    /\ q3 = Identity
    /\ pc = "start"
    /\ DocIdle

Multiply ==
    /\ pc = "start"
    /\ q3' = multiply_quaternions(q1, q2)
    /\ pc' = "done"
    /\ UNCHANGED <<q1, q2>>
    /\ UNCHANGED docVars

NextQuat == Multiply

SpecQuat == InitQuat /\ [][NextQuat]_vars

(***************************************************************************)
(* Specification of reorient_scene called repeatedly on one document.      *)
(***************************************************************************)
InitDoc(docs) ==
    /\ gltf_data \in docs
    /\ pre = gltf_data
    /\ doc0 = gltf_data
    /\ last = NoCall
    /\ log = <<>>
    /\ raised = "none"
    /\ calls = 0
    /\ QuatIdle

Finish(call, out) ==
    /\ pre' = gltf_data
    /\ gltf_data' = out.doc
    /\ log' = out.log
    /\ raised' = out.raised
    /\ last' = call
    /\ calls' = calls + 1
    /\ UNCHANGED <<doc0, quatVars>>

ReorientScene ==
    /\ calls < MaxCalls
    /\ Finish(Call("reorient_scene", 0, 0, FALSE, FALSE), reorient_scene(gltf_data))

InitReorient == InitDoc(SceneDocs)

NextReorient == ReorientScene

SpecReorient == InitReorient /\ [][NextReorient]_vars

(***************************************************************************)
(* Specification of the tool: modify_gltf run repeatedly, each run reading *)
(* the document the previous one wrote.                                    *)
(***************************************************************************)
ModifyGltf ==
    /\ calls < MaxCalls
    /\ \E p \in FactorPairs, override \in BOOLEAN, reorient \in BOOLEAN :
          Finish(Call("modify_gltf", p[1], p[2], override, reorient),
                 modify_gltf(gltf_data, p[1], p[2], override, reorient))

\* the input file cannot be read: an error is logged and nothing is written
ModifyGltfReadError ==
    /\ calls < MaxCalls
    /\ Finish(Call("modify_gltf_read_error", 0, 0, FALSE, FALSE),
              Outcome(gltf_data,
                      <<Record("INFO", "Reading input file"),
                        Record("ERROR", "Error reading input file")>>,
                      "none"))

Init == InitDoc(MaterialDocs)

Next == ModifyGltf \/ ModifyGltfReadError

Spec == Init /\ [][Next]_vars

(***************************************************************************)
(* Specification of the tool on documents that carry keys it does not      *)
(* read at every level: top level, scenes, nodes, materials and their      *)
(* pbrMetallicRoughness.                                                   *)
(***************************************************************************)
FrameScenes ==
    {[asset |-> Asset, extensionsUsed |-> <<"KHR_lights_punctual">>],
     [asset |-> Asset, scene |-> 0,
      nodes |-> <<[name |-> "a", mesh |-> 0, children |-> <<1>>], [name |-> "c", camera |-> 0]>>,
      scenes |-> <<[name |-> "Scene", nodes |-> <<0>>],
                   [name |-> "second", nodes |-> <<1>>]>>],
     [asset |-> Asset,
      nodes |-> <<[name |-> "a"],
                  [name |-> "b", rotation |-> Identity, mesh |-> 0, children |-> <<0>>]>>,
      scenes |-> <<[nodes |-> <<1>>, extras |-> [up |-> "Z"]]>>],
     [asset |-> Asset, scene |-> 0,
      nodes |-> <<[name |-> "a", mesh |-> 0],
                  [name |-> "b", rotation |-> Identity, mesh |-> 1],
                  [translation |-> <<0, 0, 1>>, children |-> <<>>]>>,
      scenes |-> <<[name |-> "Scene", nodes |-> <<2, 0, 1>>, extras |-> [up |-> "Z"]],
                   [name |-> "second", nodes |-> <<0>>]>>]}

FrameMaterials ==
    {<<>>} \cup {<<t>> : t \in MaterialTemplates}
        \cup {<<[name |-> "full", alphaMode |-> "BLEND",
                 pbrMetallicRoughness |-> [metallicFactor |-> 4, roughnessFactor |-> 6,
                                           baseColorTexture |-> 0]],
                [name |-> "bare", doubleSided |-> TRUE],
                [pbrMetallicRoughness |-> [roughnessFactor |-> 3, baseColorFactor |-> 1]]>>}

FrameDocs == FrameScenes \cup {Put(b, "materials", ml) : b \in FrameScenes, ml \in FrameMaterials}

InitFrame == InitDoc(FrameDocs)

SpecFrame == InitFrame /\ [][Next]_vars

(***************************************************************************)
(* Properties of multiply_quaternions (under SpecQuat).                    *)
(***************************************************************************)

\* The Hamilton product of quaternions stored as [x, y, z, w] (the
\* four-line formula of the design document); the reference the claims
\* about multiply_quaternions are stated against.
HamiltonXYZW(a, b) ==
    <<NumAdd(NumSub(NumAdd(NumMul(At(a, 3), At(b, 0)), NumMul(At(a, 0), At(b, 3))),
                    NumMul(At(a, 2), At(b, 1))), NumMul(At(a, 1), At(b, 2))),
      NumAdd(NumSub(NumAdd(NumMul(At(a, 3), At(b, 1)), NumMul(At(a, 1), At(b, 3))),
                    NumMul(At(a, 0), At(b, 2))), NumMul(At(a, 2), At(b, 0))),
      NumAdd(NumSub(NumAdd(NumMul(At(a, 3), At(b, 2)), NumMul(At(a, 2), At(b, 3))),
                    NumMul(At(a, 1), At(b, 0))), NumMul(At(a, 0), At(b, 1))),
      NumSub(NumSub(NumSub(NumMul(At(a, 3), At(b, 3)), NumMul(At(a, 0), At(b, 0))),
                    NumMul(At(a, 1), At(b, 1))), NumMul(At(a, 2), At(b, 2)))>>

\* C1: identity law.  With identity = (0,0,0,1) in document order
\* [x, y, z, w], compose(q, identity) = q and compose(identity, q) = q.
C1_IdentityLaw ==
    pc = "done" =>
        /\ (q2 = Identity => q3 = q1)
        /\ (q1 = Identity => q3 = q2)

\* C2: compose(q1, q2) is the Hamilton product of q1 and q2 read as
\* [x, y, z, w], the result in [x, y, z, w] order too.
C2_HamiltonProduct == pc = "done" => q3 = HamiltonXYZW(q1, q2)

(***************************************************************************)
(* Properties of reorient_scene (under SpecReorient).                      *)
(***************************************************************************)
Reoriented == last.op = "reorient_scene"

TopLevel(d) == At(d["scenes"], 0)["nodes"]

\* the first scene of d lists at least one node and the node sequence exists
HasRoots(d) ==
    /\ "scenes" \in DOMAIN d
    /\ d["scenes"] # <<>>
    /\ "nodes" \in DOMAIN At(d["scenes"], 0)
    /\ TopLevel(d) # <<>>
    /\ "nodes" \in DOMAIN d

\* the first scene of d lists exactly one node, which exists
SingleRoot(d) ==
    /\ HasRoots(d)
    /\ Len(TopLevel(d)) = 1
    /\ TopLevel(d)[1] < Len(d["nodes"])

MultiRoot(d) == HasRoots(d) /\ Len(TopLevel(d)) > 1

RootNode(d) == At(d["nodes"], TopLevel(d)[1])

X180 == <<Num(1), Num(0), Num(0), Num(0)>>

\* C3: two consecutive reorient_scene calls on a document whose first scene
\* has one top-level node without a rotation, or several top-level nodes,
\* leave the single scene root with the 180 degree rotation about X,
\* (1, 0, 0, 0).
C3_TwiceIs180 ==
    (/\ calls = 2
     /\ Reoriented
     /\ \/ SingleRoot(doc0) /\ "rotation" \notin DOMAIN RootNode(doc0)
        \/ MultiRoot(doc0))
    => /\ SingleRoot(gltf_data)
       /\ "rotation" \in DOMAIN RootNode(gltf_data)
       /\ RootNode(gltf_data)["rotation"] = X180

\* C4: a single top-level node whose rotation is the identity (0,0,0,1) has
\* rotation FIXED_X90 = (sqrt 0.5, 0, 0, sqrt 0.5) after reorient_scene.
C4_IdentityRootGetsX90 ==
    (/\ Reoriented
     /\ SingleRoot(pre)
     /\ "rotation" \in DOMAIN RootNode(pre)
     /\ RootNode(pre)["rotation"] = Identity)
    => /\ SingleRoot(gltf_data)
       /\ RootNode(gltf_data)["rotation"] = <<Sqrt05, Num(0), Num(0), Sqrt05>>

C5_Case ==
    /\ Reoriented
    /\ SingleRoot(pre)
    /\ "rotation" \notin DOMAIN RootNode(pre)

\* C5: a single top-level node without a rotation field gets rotation
\* (sqrt 0.5, 0, 0, sqrt 0.5) in place: the scene's node list is the same
\* one-element list and the node sequence keeps its length.
C5_SingleRootInPlace ==
    C5_Case =>
        /\ raised = "none"
        /\ TopLevel(gltf_data) = TopLevel(pre)
        /\ Len(gltf_data["nodes"]) = Len(pre["nodes"])
        /\ "rotation" \in DOMAIN RootNode(gltf_data)
        /\ RootNode(gltf_data)["rotation"] = <<Sqrt05, Num(0), Num(0), Sqrt05>>

C5_Witness ==
    /\ C5_Case
    /\ Len(pre["nodes"]) > 1
    /\ RootNode(gltf_data)["rotation"] = <<Sqrt05, Num(0), Num(0), Sqrt05>>

C6_Case == Reoriented /\ MultiRoot(pre)

\* C6: with more than one top-level node and a node sequence of length L,
\* after reorient_scene the scene's node list is [L], the node sequence has
\* length L+1, nodes[L] is {name: "ReorientedRoot", rotation: FIXED_X90,
\* children: the former top-level list in the same order}, and every node
\* below L is as it was.
C6_MultiRootSynthesis ==
    C6_Case =>
        LET L == Len(pre["nodes"]) IN
        /\ raised = "none"
        /\ TopLevel(gltf_data) = <<L>>
        /\ Len(gltf_data["nodes"]) = L + 1
        /\ At(gltf_data["nodes"], L) =
              [name |-> "ReorientedRoot",
               rotation |-> <<Sqrt05, Num(0), Num(0), Sqrt05>>,
               children |-> TopLevel(pre)]
        /\ \A i \in 0..(L - 1) : At(gltf_data["nodes"], i) = At(pre["nodes"], i)

C6_Witness ==
    /\ C6_Case
    /\ Len(TopLevel(pre)) = 3
    /\ TopLevel(pre)[1] > TopLevel(pre)[2]
    /\ TopLevel(gltf_data) = <<Len(pre["nodes"])>>

\* nothing to rotate: no scenes key, an empty scene list, or a first scene
\* whose nodes list is absent or empty
C7_NothingToRotate(d) ==
    \/ "scenes" \notin DOMAIN d
    \/ d["scenes"] = <<>>
    \/ "nodes" \notin DOMAIN d["scenes"][1]
    \/ d["scenes"][1]["nodes"] = <<>>

Warned == \E i \in DOMAIN log : log[i][1] = "WARNING"

\* C7: with nothing to rotate, reorient_scene returns the document
\* unchanged, emits a warning and raises no exception.
C7_NoOpWithoutRoots ==
    (Reoriented /\ C7_NothingToRotate(pre)) =>
        /\ gltf_data = pre
        /\ raised = "none"
        /\ Warned

C7_Witness ==
    /\ Reoriented
    /\ "scenes" \in DOMAIN pre
    /\ pre["scenes"] # <<>>
    /\ "nodes" \in DOMAIN pre["scenes"][1]
    /\ pre["scenes"][1]["nodes"] = <<>>
    /\ pre["nodes"] # <<>>
    /\ gltf_data = pre
    /\ Warned

(***************************************************************************)
(* Properties of the material stage of modify_gltf (under Spec).           *)
(***************************************************************************)
Patched == last.op = "modify_gltf" /\ raised = "none" /\ "materials" \in DOMAIN pre

HadFactor(material, key) ==
    /\ "pbrMetallicRoughness" \in DOMAIN material
    /\ key \in DOMAIN material["pbrMetallicRoughness"]

\* clamp(v, 0, 1) with factors in tenths
Clamp01(v) == IF v > One THEN One ELSE IF v < 0 THEN 0 ELSE v

C8_FactorRule(before, after, key, requested) ==
    /\ "pbrMetallicRoughness" \in DOMAIN after
    /\ key \in DOMAIN after["pbrMetallicRoughness"]
    /\ after["pbrMetallicRoughness"][key] =
          IF ~HadFactor(before, key) \/ last.override
          THEN Clamp01(requested)
          ELSE before["pbrMetallicRoughness"][key]

\* C8: after a patch (metallic, roughness, override), every material's
\* metallicFactor is clamp(metallic) if the field was absent before or
\* override is true, and its previous value otherwise; the same holds
\* independently for roughnessFactor with roughness.
C8_DefaultOverridePolicy ==
    Patched =>
        /\ "materials" \in DOMAIN gltf_data
        /\ Len(gltf_data["materials"]) = Len(pre["materials"])
        /\ \A i \in DOMAIN pre["materials"] :
              /\ C8_FactorRule(pre["materials"][i], gltf_data["materials"][i],
                               "metallicFactor", last.metallic)
              /\ C8_FactorRule(pre["materials"][i], gltf_data["materials"][i],
                               "roughnessFactor", last.roughness)

\* the example of the design document: metallicFactor 0.9 and no
\* roughnessFactor, patched with 0.1/0.1 and override=false
C8_Witness ==
    /\ Patched
    /\ last.metallic = 1 /\ last.roughness = 1 /\ ~last.override
    /\ \E i \in DOMAIN pre["materials"] :
          /\ HadFactor(pre["materials"][i], "metallicFactor")
          /\ ~HadFactor(pre["materials"][i], "roughnessFactor")
          /\ pre["materials"][i]["pbrMetallicRoughness"]["metallicFactor"] = 9
          /\ gltf_data["materials"][i]["pbrMetallicRoughness"]["metallicFactor"] = 9
          /\ gltf_data["materials"][i]["pbrMetallicRoughness"]["roughnessFactor"] = 1

\* the patch wrote the factor: it was absent before, or override was set
Written(material, key) == ~HadFactor(material, key) \/ last.override

C9_Clamped(requested, v) ==
    /\ 0 <= v /\ v <= One
    /\ (requested > One => v = One)
    /\ (requested < 0 => v = 0)
    /\ (0 <= requested /\ requested <= One => v = requested)

\* C9: every factor the patch writes is the requested value clamped to
\* [0, 1]: above 1 gives 1, below 0 gives 0, inside is kept; a request out
\* of range is never rejected.
C9_Clamping ==
    last.op = "modify_gltf" =>
        /\ raised = "none"
        /\ "materials" \in DOMAIN pre =>
              \A i \in DOMAIN pre["materials"] :
                 LET before == pre["materials"][i]
                     pbr == gltf_data["materials"][i]["pbrMetallicRoughness"]
                 IN  /\ Written(before, "metallicFactor") =>
                            C9_Clamped(last.metallic, pbr["metallicFactor"])
                     /\ Written(before, "roughnessFactor") =>
                            C9_Clamped(last.roughness, pbr["roughnessFactor"])

C9_Witness ==
    /\ Patched
    /\ last.metallic > One /\ last.roughness < 0
    /\ \E i \in DOMAIN pre["materials"] :
          /\ Written(pre["materials"][i], "metallicFactor")
          /\ Written(pre["materials"][i], "roughnessFactor")
          /\ gltf_data["materials"][i]["pbrMetallicRoughness"]["metallicFactor"] = One
          /\ gltf_data["materials"][i]["pbrMetallicRoughness"]["roughnessFactor"] = 0

LoggedNoMaterials ==
    \E i \in DOMAIN log :
        log[i] = <<"WARNING", "No materials found in the glTF file.">>

LoggedError == \E i \in DOMAIN log : log[i][1] = "ERROR"

\* the document as the material stage received it
BeforeMaterials == IF last.reorient THEN reorient_scene(pre).doc ELSE pre

\* C10: without a materials key the material stage changes nothing (no
\* materials key is created) and logs a warning; with an empty material
\* list it logs no warning, raises nothing and changes nothing.
C10_MissingVersusEmpty ==
    last.op = "modify_gltf" =>
        /\ "materials" \notin DOMAIN pre =>
              /\ raised = "none"
              /\ "materials" \notin DOMAIN gltf_data
              /\ gltf_data = BeforeMaterials
              /\ LoggedNoMaterials
        /\ ("materials" \in DOMAIN pre /\ pre["materials"] = <<>>) =>
              /\ raised = "none"
              /\ gltf_data = BeforeMaterials
              /\ gltf_data["materials"] = <<>>
              /\ ~LoggedNoMaterials
              /\ ~LoggedError

\* a run on a document without a materials key
C10_Witness ==
    /\ last.op = "modify_gltf"
    /\ ~last.reorient
    /\ "materials" \notin DOMAIN pre
    /\ "nodes" \in DOMAIN pre
    /\ gltf_data = pre
    /\ LoggedNoMaterials

(***************************************************************************)
(* Structural preservation (under SpecFrame).                              *)
(***************************************************************************)
\* dictionaries a and b have the same keys and values outside keys
SameExcept(a, b, keys) ==
    /\ (DOMAIN a) \ keys = (DOMAIN b) \ keys
    /\ \A k \in (DOMAIN a) \ keys : a[k] = b[k]

FrameScenesKept(before, after) ==
    "scenes" \in DOMAIN before =>
        /\ Len(after["scenes"]) = Len(before["scenes"])
        /\ \A i \in DOMAIN before["scenes"] :
              IF i = 1
              THEN /\ SameExcept(before["scenes"][1], after["scenes"][1], {"nodes"})
                   /\ DOMAIN after["scenes"][1] = DOMAIN before["scenes"][1]
              ELSE after["scenes"][i] = before["scenes"][i]

FrameNodesKept(before, after) ==
    "nodes" \in DOMAIN before =>
        LET L == Len(before["nodes"]) IN
        /\ Len(after["nodes"]) \in {L, L + 1}
        /\ Len(after["nodes"]) = L + 1 => MultiRoot(before)
        /\ \A i \in 1..L :
              IF SingleRoot(before) /\ i = TopLevel(before)[1] + 1
              THEN SameExcept(before["nodes"][i], after["nodes"][i], {"rotation"})
              ELSE after["nodes"][i] = before["nodes"][i]

FrameMaterialsKept(before, after) ==
    "materials" \in DOMAIN before =>
        /\ Len(after["materials"]) = Len(before["materials"])
        /\ \A i \in DOMAIN before["materials"] :
              LET m0 == before["materials"][i]
                  m1 == after["materials"][i]
                  p0 == IF "pbrMetallicRoughness" \in DOMAIN m0
                        THEN m0["pbrMetallicRoughness"]
                        ELSE [k \in {} |-> 0]
              IN  /\ SameExcept(m0, m1, {"pbrMetallicRoughness"})
                  /\ "pbrMetallicRoughness" \in DOMAIN m1
                  /\ SameExcept(p0, m1["pbrMetallicRoughness"],
                                {"metallicFactor", "roughnessFactor"})

\* C11: a reorient followed by a material patch changes nothing except
\* scenes[0].nodes, the appended synthetic node, the rotation of the single
\* scene root and the two factors of each material's pbrMetallicRoughness
\* (created when absent); every other key at every level keeps its value.
C11_StructuralPreservation ==
    (last.op = "modify_gltf" /\ raised = "none") =>
        /\ DOMAIN gltf_data = DOMAIN pre
        /\ SameExcept(pre, gltf_data, {"scenes", "nodes", "materials"})
        /\ FrameScenesKept(pre, gltf_data)
        /\ FrameNodesKept(pre, gltf_data)
        /\ FrameMaterialsKept(pre, gltf_data)
        /\ ~last.reorient => /\ SameExcept(pre, gltf_data, {"materials"})
                             /\ "scenes" \in DOMAIN pre => gltf_data["scenes"] = pre["scenes"]

\* a run with reorient on the three-root document with three materials: a
\* root was synthesised and a pbrMetallicRoughness created
C11_Witness ==
    /\ last.op = "modify_gltf"
    /\ last.reorient
    /\ raised = "none"
    /\ MultiRoot(pre)
    /\ Len(pre["scenes"]) = 2
    /\ "materials" \in DOMAIN pre
    /\ Len(pre["materials"]) = 3
    /\ Len(gltf_data["nodes"]) = Len(pre["nodes"]) + 1
    /\ gltf_data["materials"] # pre["materials"]
    /\ gltf_data["materials"][1]["pbrMetallicRoughness"]["baseColorTexture"] = 0

(***************************************************************************)
(* Repeated reorientation (under SpecReorient).                            *)
(***************************************************************************)
SameField(a, b, key) ==
    /\ key \in DOMAIN a <=> key \in DOMAIN b
    /\ key \in DOMAIN a => a[key] = b[key]

C12_Case == calls >= 1 /\ Reoriented /\ HasRoots(doc0)

\* C12: after one or more reorient_scene calls on a document whose first
\* scene listed k >= 1 nodes and whose node sequence had length L, the first
\* scene lists exactly one node, the node sequence only grew and has length
\* L if k = 1 and L+1 if k > 1, and every initial node is at its index with
\* its name and children.
C12_ReorientKeepsGraph ==
    C12_Case =>
        LET k == Len(TopLevel(doc0))
            L == Len(doc0["nodes"])
        IN  /\ Len(TopLevel(gltf_data)) = 1
            /\ Len(gltf_data["nodes"]) = IF k = 1 THEN L ELSE L + 1
            /\ Len(gltf_data["nodes"]) >= Len(pre["nodes"])
            /\ \A i \in 1..L :
                  /\ SameField(doc0["nodes"][i], gltf_data["nodes"][i], "name")
                  /\ SameField(doc0["nodes"][i], gltf_data["nodes"][i], "children")

\* the second call on a document that had several roots: the synthetic root
\* made by the first call is rotated, no second one is made
C12_Witness ==
    /\ C12_Case
    /\ calls = 2
    /\ Len(TopLevel(doc0)) > 1
    /\ Len(pre["nodes"]) = Len(doc0["nodes"]) + 1
    /\ Len(gltf_data["nodes"]) = Len(doc0["nodes"]) + 1
    /\ gltf_data # pre

(***************************************************************************)
(* Repeated material patches (under Spec).                                 *)
(***************************************************************************)
\* every material of d has a pbrMetallicRoughness with both factors
AllFactorsSet(d) ==
    \A i \in DOMAIN d["materials"] :
        /\ "pbrMetallicRoughness" \in DOMAIN d["materials"][i]
        /\ {"metallicFactor", "roughnessFactor"}
              \subseteq DOMAIN d["materials"][i]["pbrMetallicRoughness"]

\* the run before the last one was the override patch the last one repeats
C13_Repeated ==
    /\ calls = 2
    /\ Patched
    /\ last.override
    /\ \E re \in BOOLEAN :
          LET first == modify_gltf(doc0, last.metallic, last.roughness, TRUE, re)
          IN  first.raised = "none" /\ first.doc = pre

\* C13: after any patch of a document with a material list every material
\* has a pbrMetallicRoughness holding both factors; so a later patch with
\* override=false changes nothing, whatever metallic and roughness are, and
\* an override=true patch repeated with the same parameters changes nothing
\* the second time.
C13_PatchSettles ==
    /\ Patched => AllFactorsSet(gltf_data)
    /\ (Patched /\ calls >= 2 /\ AllFactorsSet(pre) /\ ~last.override) =>
          gltf_data = BeforeMaterials
    /\ C13_Repeated => gltf_data = BeforeMaterials

\* a second patch without override, asking for other values than the first
\* patch wrote into a material that had no substructure, changes nothing
C13_Witness ==
    /\ Patched
    /\ calls = 2
    /\ ~last.override
    /\ ~last.reorient
    /\ \E i \in DOMAIN doc0["materials"] :
          /\ "pbrMetallicRoughness" \notin DOMAIN doc0["materials"][i]
          /\ pre["materials"][i]["pbrMetallicRoughness"]["metallicFactor"] # Clamp01(last.metallic)
    /\ AllFactorsSet(pre)
    /\ pre # doc0
    /\ gltf_data = pre

====
